---- MODULE Spec2Model ----
(***************************************************************************)
(* The synchronous OCR service of 1-python_basics/nanonets_ocr_old.py:     *)
(* the /ocr/resume and /ocr/smalter/{image_type} handlers and the bulk     *)
(* helper run_bulk_ocr_task_sync, one request from arrival to response.    *)
(* File names are sequences of one-character strings, so that splitext,    *)
(* lower, upper, replace and endswith are computed and not assumed.        *)
(***************************************************************************)
EXTENDS Integers, Sequences, FiniteSets, TLC

VARIABLES pc, req, uploadRead, tmpExists, scratchExists, created, ocrCalls,
          exc, locals, response

vars == <<pc, req, uploadRead, tmpExists, scratchExists, created, ocrCalls,
          exc, locals, response>>

(* ------------------------------ bounds -------------------------------- *)

\* Longest generated upload name (over NameChars), besides the named ones.
MaxNameLen == 2

\* Most entries in an uploaded archive.
MaxEntries == 3

(* ------------------------------ strings ------------------------------- *)

LowerLetters ==
  <<"a","b","c","d","e","f","g","h","i","j","k","l","m",
    "n","o","p","q","r","s","t","u","v","w","x","y","z">>

UpperLetters ==
  <<"A","B","C","D","E","F","G","H","I","J","K","L","M",
    "N","O","P","Q","R","S","T","U","V","W","X","Y","Z">>

\* str.upper() on one character.
ToUpper(c) ==
  IF \E i \in 1..26 : LowerLetters[i] = c
  THEN UpperLetters[CHOOSE i \in 1..26 : LowerLetters[i] = c]
  ELSE c

\* str.lower() on one character.
ToLower(c) ==
  IF \E i \in 1..26 : UpperLetters[i] = c
  THEN LowerLetters[CHOOSE i \in 1..26 : UpperLetters[i] = c]
  ELSE c

StrUpper(s) == [i \in 1..Len(s) |-> ToUpper(s[i])]

StrLower(s) == [i \in 1..Len(s) |-> ToLower(s[i])]

\* str.endswith(suffix)
EndsWith(s, suf) ==
  /\ Len(s) >= Len(suf)
  /\ SubSeq(s, Len(s) - Len(suf) + 1, Len(s)) = suf

\* str.replace('.', '')
IsNotDot(c) == c # "."

RemoveDots(s) == SelectSeq(s, IsNotDot)

\* str.rfind(c), 1-based, 0 when absent.
LastIndex(s, c) ==
  IF \E i \in 1..Len(s) : s[i] = c
  THEN CHOOSE i \in 1..Len(s) : s[i] = c /\ \A j \in (i+1)..Len(s) : s[j] # c
  ELSE 0

\* os.path.splitext(p)[1] (posix): the text from the last dot of the last
\* path component, unless only dots precede it there; else empty.
SplitextExt(p) ==
  LET sepIndex == LastIndex(p, "/")
      dotIndex == LastIndex(p, ".")
  IN  IF /\ dotIndex > sepIndex
         /\ \E k \in (sepIndex + 1)..(dotIndex - 1) : p[k] # "."
      THEN SubSeq(p, dotIndex, Len(p))
      ELSE <<>>

UNKNOWN == <<"U","N","K","N","O","W","N">>

\* file_extension.replace('.', '').upper() if file_extension else "UNKNOWN"
FileTypeTag(name) ==
  LET file_extension == SplitextExt(name)
  IN  IF file_extension # <<>>
      THEN StrUpper(RemoveDots(file_extension))
      ELSE UNKNOWN

DotZip == <<".","z","i","p">>

\* file.filename.lower().endswith('.zip')
IsZipName(name) == EndsWith(StrLower(name), DotZip)

supported_extensions ==
  { <<".","p","n","g">>, <<".","j","p","g">>,
    <<".","j","p","e","g">>, <<".","p","d","f">> }

\* filename.lower().endswith(supported_extensions)
IsSupportedEntry(filename) ==
  \E e \in supported_extensions : EndsWith(StrLower(filename), e)

ResumeImageTypes ==
  { <<"P","N","G">>, <<"J","P","G">>, <<"J","P","E","G">> }

PDF == <<"P","D","F">>

(* ------------------------------ inputs -------------------------------- *)

None == "None"

\* The selectors; the three named ones are those the handler tests for.
SmalterDocumentType == {"CNI_FRONT", "CNI_BACK", "WORK_CONTRACT", "GENERIC"}

CniLanguage == {"fr", "ar"}

CniTypes == {"CNI_FRONT", "CNI_BACK"}

\* is_cni = image_type in [CNI_FRONT, CNI_BACK]
IsCni(image_type) == image_type \in CniTypes

supported_bulk_types_all == SmalterDocumentType

supported_bulk_types == {"CNI_FRONT", "CNI_BACK", "WORK_CONTRACT"}

NameChars == {"a", ".", "/"}

RECURSIVE SeqsUpTo(_, _)
SeqsUpTo(S, n) ==
  IF n = 0 THEN {<<>>}
  ELSE LET shorter == SeqsUpTo(S, n - 1)
       IN  shorter \cup {Append(s, c) : s \in shorter, c \in S}

NamedFiles ==
  { <<"a",".","p","n","g">>, <<"B",".","J","P","G">>,
    <<"c","v",".","p","d","f">>, <<"x",".","j","p","e","g">>,
    <<"s","c","a","n",".">>, <<".","p","n","g">>,
    <<"n","o","t","e","s",".","t","x","t">>, <<"n","o","e","x","t">>,
    <<"b",".","z","i","p">>, <<"B",".","Z","I","P">> }

\* Upload names: the named ones and every short name over NameChars.
FileNames == NamedFiles \cup (SeqsUpTo(NameChars, MaxNameLen) \ {<<>>})

\* What an archive can hold: a file the walk will find, and what the OCR
\* collaborator does with it.
EntryKinds ==
  {[name |-> n, ocr |-> o] :
      n \in { <<"a",".","p","n","g">>, <<"B",".","J","P","G">>,
              <<"n","o","t","e","s",".","t","x","t">> },
      o \in {"payload", "raise"}}
  \cup {[name |-> <<"c","v",".","p","d","f">>, ocr |-> "list"]}

Blob == [kind |-> "blob", entries |-> <<>>]

\* The bytes of an upload.  Only an upload routed to the bulk helper has its
\* bytes opened as an archive, so only for those names is the archive's
\* listing (in the order os.walk yields it) part of the input.
Contents(filename) ==
  IF IsZipName(filename)
  THEN {Blob} \cup {[kind |-> "archive", entries |-> es] :
                       es \in SeqsUpTo(EntryKinds, MaxEntries)}
  ELSE {Blob}

(* ------------------------- values and records -------------------------- *)

NoExc == [kind |-> "none", status |-> 0, msg |-> "none"]

\* An exception in flight: its class, its status when it is an
\* HTTPException, and str(e).
Raised(kind, status, msg) == [kind |-> kind, status |-> status, msg |-> msg]

NoResponse == [status |-> 0, kind |-> "none", detail |-> "none", body |-> <<>>]

\* raise HTTPException(status_code=status, detail=detail)
ErrorResponse(status, detail) ==
  [status |-> status, kind |-> "error", detail |-> detail, body |-> <<>>]

\* return JSONResponse(content=final_response): one envelope
EnvelopeResponse(envelope) ==
  [status |-> 200, kind |-> "envelope", detail |-> "none", body |-> <<envelope>>]

\* return JSONResponse(content=bulk_results): a list of fragments
ListResponse(fragments) ==
  [status |-> 200, kind |-> "list", detail |-> "none", body |-> fragments]

NoLocals ==
  [file_type |-> <<>>, creation_date |-> "none",
   ocr_result |-> [isList |-> TRUE, items |-> <<>>], all_results |-> <<>>]

\* What the OCR collaborator may return: one payload or a list of them.
OcrReturns ==
  { [isList |-> FALSE, payload |-> "rec"],
    [isList |-> TRUE, items |-> <<"rec1", "rec2">>],
    [isList |-> TRUE, items |-> <<>>] }

\* A call of the OCR collaborator: it returns one of those, or raises.
OcrOutcomes ==
  {[raises |-> TRUE]} \cup {[raises |-> FALSE, value |-> r] : r \in OcrReturns}

\* details = ocr_result if isinstance(ocr_result, list) else [ocr_result]
Details(ocr_result) ==
  IF ocr_result.isList THEN ocr_result.items ELSE <<ocr_result.payload>>

SmalterUrl(image_type) == <<"/ocr/smalter", image_type>>

\* A variant that writes the language whenever a hint was supplied.
SingleFileMetadataByHint(image_type, file_type, creation_date, lang) ==
  LET base == ("file_url" :> SmalterUrl(image_type))
              @@ ("file_type" :> file_type)
              @@ ("file_creation_date" :> creation_date)
  IN  IF lang # None THEN base @@ ("language" :> lang) ELSE base

\* file_metadata of the single-document envelope, with the language key
\* added for identity documents only.
SingleFileMetadata(image_type, file_type, creation_date, lang) ==
  LET base == ("file_url" :> SmalterUrl(image_type))
              @@ ("file_type" :> file_type)
              @@ ("file_creation_date" :> creation_date)
  IN  IF IsCni(image_type) THEN base @@ ("language" :> lang) ELSE base

\* file_metadata of a bulk success fragment.
BulkFileMetadata(filename, image_type, file_type, creation_date, lang) ==
  LET base == ("source_file" :> filename)
              @@ ("file_url" :> SmalterUrl(image_type))
              @@ ("file_type" :> file_type)
              @@ ("file_creation_date" :> creation_date)
  IN  IF IsCni(image_type) THEN base @@ ("language" :> lang) ELSE base

\* The fragment appended by the except clause of the per-entry try.
FailureFragment(filename, msg) ==
  [file_metadata |-> ("source_file" :> filename) @@ ("error" :> TRUE),
   details |-> <<msg>>]

IsFailureFragment(fragment) == "error" \in DOMAIN fragment.file_metadata

(* ---------------------------- bulk helper ------------------------------ *)

\* The names this module binds at import time include io, os, json and
\* tempfile; zipfile is not among them.
ZipfileImported == FALSE

\* The collaborator's answer for an archive entry.
EntryOcrResult(entry) ==
  IF entry.ocr = "list"
  THEN [isList |-> TRUE, items |-> <<"rec1", "rec2">>]
  ELSE [isList |-> FALSE, payload |-> "rec"]

\* The body of the per-entry try: one fragment for one supported file.
EntryFragment(entry, image_type, lang) ==
  IF entry.ocr = "raise"
  THEN FailureFragment(entry.name, "ocr_failed")
  ELSE IF IsCni(image_type) /\ lang = None
  THEN FailureFragment(entry.name, "AttributeError")
  ELSE [file_metadata |->
          BulkFileMetadata(entry.name, image_type, FileTypeTag(entry.name),
                           "date", lang),
        details |-> Details(EntryOcrResult(entry))]

\* The walk over the extracted files: unsupported names are skipped, every
\* other file appends one fragment, in the walk's order.
RECURSIVE ProcessEntries(_, _, _)
ProcessEntries(entries, image_type, lang) ==
  IF entries = <<>> THEN <<>>
  ELSE LET rest == ProcessEntries(Tail(entries), image_type, lang)
       IN  IF ~IsSupportedEntry(Head(entries).name) THEN rest
           ELSE <<EntryFragment(Head(entries), image_type, lang)>> \o rest

SupportedEntries(entries) ==
  SelectSeq(entries, LAMBDA e : IsSupportedEntry(e.name))

\* What happens between entering and leaving the TemporaryDirectory block.
run_bulk_body(content, image_type, lang) ==
  IF ~ZipfileImported
  THEN [exc |-> Raised("NameError", 0, "name 'zipfile' is not defined"),
        all_results |-> <<>>, ocr_calls |-> 0]
  ELSE IF content.kind # "archive"
  THEN [exc |-> Raised("BadZipFile", 0, "File is not a zip file"),
        all_results |-> <<>>, ocr_calls |-> 0]
  ELSE [exc |-> NoExc,
        all_results |-> ProcessEntries(content.entries, image_type, lang),
        ocr_calls |-> Len(SupportedEntries(content.entries))]

\* A variant that removes the directory only when the block ends normally.
ScratchLeftOnRaise(e) == e # NoExc

\* Whether the scratch directory still exists once the TemporaryDirectory
\* block is left carrying e (or no exception): the context manager removes
\* it on every exit.
ScratchLeft(e) == FALSE

(* ------------------------------- state --------------------------------- *)

Init ==
  /\ pc = "idle"
  /\ req = [endpoint |-> "none", image_type |-> None, filename |-> <<>>,
            lang |-> None, content |-> Blob]
  /\ uploadRead = FALSE
  /\ tmpExists = FALSE
  /\ scratchExists = FALSE
  /\ created = {}
  /\ ocrCalls = 0
  /\ exc = NoExc
  /\ locals = NoLocals
  /\ response = NoResponse

\* A request arrives at POST /ocr/smalter/{image_type}.
ReceiveSmalter ==
  /\ pc = "idle"
  /\ \E t \in SmalterDocumentType, f \in FileNames, l \in CniLanguage \cup {None} :
       \E c \in Contents(f) :
         req' = [endpoint |-> "smalter", image_type |-> t, filename |-> f,
                 lang |-> l, content |-> c]
  /\ pc' = "smalter_validate"
  /\ UNCHANGED <<uploadRead, tmpExists, scratchExists, created, ocrCalls,
                 exc, locals, response>>

\* A variant that asks for the hint for the front side only.
LangMissingFrontOnly(image_type, lang) ==
  image_type = "CNI_FRONT" /\ lang = None

\* is_cni and not lang
LangMissing(image_type, lang) == IsCni(image_type) /\ lang = None

\* The hint check that opens the handler.
SmalterValidate ==
  /\ pc = "smalter_validate"
  /\ IF LangMissing(req.image_type, req.lang)
     THEN /\ response' = ErrorResponse(400, "lang_required")
          /\ pc' = "done"
     ELSE /\ response' = response
          /\ pc' = "smalter_read"
  /\ UNCHANGED <<req, uploadRead, tmpExists, scratchExists, created, ocrCalls,
                 exc, locals>>

\* file_bytes = await file.read()
SmalterRead ==
  /\ pc = "smalter_read"
  /\ uploadRead' = TRUE
  /\ pc' = "smalter_dispatch"
  /\ UNCHANGED <<req, tmpExists, scratchExists, created, ocrCalls, exc,
                 locals, response>>

\* The dispatcher: a ZIP goes to the bulk helper if its selector is
\* eligible, anything else is a single document.
SmalterDispatch ==
  /\ pc = "smalter_dispatch"
  /\ IF IsZipName(req.filename)
     THEN IF req.image_type \notin supported_bulk_types
          THEN /\ response' = ErrorResponse(400, "bulk_not_supported")
               /\ pc' = "done"
          ELSE /\ response' = response
               /\ pc' = "bulk_enter"
     ELSE /\ response' = response
          /\ pc' = "single_classify"
  /\ UNCHANGED <<req, uploadRead, tmpExists, scratchExists, created, ocrCalls,
                 exc, locals>>

\* all_results = []; with tempfile.TemporaryDirectory() as temp_dir:
BulkEnter ==
  /\ pc = "bulk_enter"
  /\ scratchExists' = TRUE
  /\ created' = created \cup {"scratch"}
  /\ locals' = [locals EXCEPT !.all_results = <<>>]
  /\ pc' = "bulk_body"
  /\ UNCHANGED <<req, uploadRead, tmpExists, ocrCalls, exc, response>>

\* Extraction and the walk over the extracted files.
BulkBody ==
  /\ pc = "bulk_body"
  /\ LET out == run_bulk_body(req.content, req.image_type, req.lang)
     IN  /\ exc' = out.exc
         /\ locals' = [locals EXCEPT !.all_results = out.all_results]
         /\ ocrCalls' = ocrCalls + out.ocr_calls
  /\ pc' = "bulk_exit"
  /\ UNCHANGED <<req, uploadRead, tmpExists, scratchExists, created, response>>

\* Leaving the TemporaryDirectory block, normally or by an exception.
BulkExit ==
  /\ pc = "bulk_exit"
  /\ scratchExists' = ScratchLeft(exc)
  /\ pc' = "bulk_return"
  /\ UNCHANGED <<req, uploadRead, tmpExists, created, ocrCalls, exc, locals,
                 response>>

\* The handler's try around the helper: its list, or a 500.
BulkReturn ==
  /\ pc = "bulk_return"
  /\ response' = IF exc = NoExc
                 THEN ListResponse(locals.all_results)
                 ELSE ErrorResponse(500, "Bulk processing failed")
  /\ pc' = "done"
  /\ UNCHANGED <<req, uploadRead, tmpExists, scratchExists, created, ocrCalls,
                 exc, locals>>

(* ----------------------- single-document branch ------------------------ *)

\* creation_date, file_extension and file_type of the upload.  The metadata
\* collaborator returns a date or raises.
SingleClassify ==
  /\ pc = "single_classify"
  /\ \E metadata \in {"date", "raise"} :
       IF metadata = "raise"
       THEN /\ exc' = Raised("Exception", 0, "metadata_failed")
            /\ locals' = locals
            /\ pc' = "single_except"
       ELSE /\ exc' = exc
            /\ locals' = [locals EXCEPT !.creation_date = "date",
                                        !.file_type = FileTypeTag(req.filename)]
            /\ pc' = "single_tmp"
  /\ UNCHANGED <<req, uploadRead, tmpExists, scratchExists, created, ocrCalls,
                 response>>

\* with tempfile.NamedTemporaryFile(delete=False, ...) as tmp_file:
\*     tmp_file.write(file_bytes)
\* The file may not be created at all, or be created and the write fail;
\* leaving the block closes the file and, with delete=False, keeps it.
SingleTmp ==
  /\ pc = "single_tmp"
  /\ \E io \in {"written", "create_fails", "write_fails"} :
       /\ tmpExists' = (io # "create_fails")
       /\ created' = IF io = "create_fails" THEN created
                     ELSE created \cup {"tmp"}
       /\ exc' = IF io = "written" THEN exc ELSE Raised("OSError", 0, io)
       /\ pc' = IF io = "written" THEN "single_ocr" ELSE "single_except"
  /\ UNCHANGED <<req, uploadRead, scratchExists, ocrCalls, locals, response>>

\* Whether the temp file still exists after the try/finally around the OCR
\* call: os.remove runs whether or not the call raised.
TmpLeft(raised) == FALSE

\* try: ocr_result = ocr_smalter_helper(tmp_path, ...) finally: os.remove
SingleOcr ==
  /\ pc = "single_ocr"
  /\ ocrCalls' = ocrCalls + 1
  /\ \E call \in OcrOutcomes :
       IF call.raises
       THEN /\ tmpExists' = TmpLeft(TRUE)
            /\ exc' = Raised("Exception", 0, "ocr_failed")
            /\ locals' = locals
            /\ pc' = "single_except"
       ELSE /\ tmpExists' = TmpLeft(FALSE)
            /\ exc' = exc
            /\ locals' = [locals EXCEPT !.ocr_result = call.value]
            /\ pc' = "single_assemble"
  /\ UNCHANGED <<req, uploadRead, scratchExists, created, response>>

\* file_metadata, details and the envelope.
SingleAssemble ==
  /\ pc = "single_assemble"
  /\ response' =
       EnvelopeResponse(
         [file_metadata |-> SingleFileMetadata(req.image_type, locals.file_type,
                                               locals.creation_date, req.lang),
          details |-> Details(locals.ocr_result)])
  /\ pc' = "done"
  /\ UNCHANGED <<req, uploadRead, tmpExists, scratchExists, created, ocrCalls,
                 exc, locals>>

\* except Exception as e: raise HTTPException(status_code=500, detail=str(e))
SingleExcept ==
  /\ pc = "single_except"
  /\ response' = ErrorResponse(500, exc.msg)
  /\ pc' = "done"
  /\ UNCHANGED <<req, uploadRead, tmpExists, scratchExists, created, ocrCalls,
                 exc, locals>>

(* --------------------------- resume endpoint --------------------------- *)

\* A request arrives at POST /ocr/resume.
ReceiveResume ==
  /\ pc = "idle"
  /\ \E f \in FileNames :
       req' = [endpoint |-> "resume", image_type |-> None, filename |-> f,
               lang |-> None, content |-> Blob]
  /\ pc' = "resume_read"
  /\ UNCHANGED <<uploadRead, tmpExists, scratchExists, created, ocrCalls,
                 exc, locals, response>>

\* content = await file.read(); creation_date; file_extension; file_type
ResumeRead ==
  /\ pc = "resume_read"
  /\ uploadRead' = TRUE
  /\ \E metadata \in {"date", "raise"} :
       IF metadata = "raise"
       THEN /\ exc' = Raised("Exception", 0, "metadata_failed")
            /\ locals' = locals
            /\ pc' = "resume_except"
       ELSE /\ exc' = exc
            /\ locals' = [locals EXCEPT !.creation_date = "date",
                                        !.file_type = FileTypeTag(req.filename)]
            /\ pc' = "resume_decode"
  /\ UNCHANGED <<req, tmpExists, scratchExists, created, ocrCalls, response>>

\* What turning the bytes into images can do, by file type.
DecodeOutcomes(file_type) ==
  IF file_type = PDF THEN {"images", "no_images", "raise"}
  ELSE IF file_type \in ResumeImageTypes THEN {"images", "raise"}
  ELSE {"unsupported"}

\* The exception the decoding step raises for an outcome, if any.
DecodeRaises(outcome) ==
  CASE outcome = "images" -> NoExc
    [] outcome = "no_images" -> Raised("HTTPException", 422, "could_not_process")
    [] outcome = "unsupported" -> Raised("HTTPException", 415, "unsupported_file_type")
    [] OTHER -> Raised("Exception", 0, "decode_failed")

\* if PDF ... elif PNG/JPG/JPEG ... else raise 415; if not images: raise 422
ResumeDecode ==
  /\ pc = "resume_decode"
  /\ \E outcome \in DecodeOutcomes(locals.file_type) :
       /\ exc' = DecodeRaises(outcome)
       /\ pc' = IF outcome = "images" THEN "resume_ocr" ELSE "resume_except"
  /\ UNCHANGED <<req, uploadRead, tmpExists, scratchExists, created, ocrCalls,
                 locals, response>>

\* ocr_resume, clean_zip_from_resume_entry, json.loads
ResumeOcr ==
  /\ pc = "resume_ocr"
  /\ ocrCalls' = ocrCalls + 1
  /\ \E r \in {"parsed", "raise"} :
       IF r = "raise"
       THEN /\ exc' = Raised("Exception", 0, "ocr_failed")
            /\ locals' = locals
            /\ pc' = "resume_except"
       ELSE /\ exc' = exc
            /\ locals' = [locals EXCEPT
                            !.ocr_result = [isList |-> FALSE, payload |-> "rec"]]
            /\ pc' = "resume_assemble"
  /\ UNCHANGED <<req, uploadRead, tmpExists, scratchExists, created, response>>

\* file_metadata, details = [ocr_result] and the envelope.
ResumeAssemble ==
  /\ pc = "resume_assemble"
  /\ response' =
       EnvelopeResponse(
         [file_metadata |-> ("file_url" :> <<"/ocr/resume">>)
                            @@ ("file_type" :> locals.file_type)
                            @@ ("file_creation_date" :> locals.creation_date),
          details |-> <<locals.ocr_result.payload>>])
  /\ pc' = "done"
  /\ UNCHANGED <<req, uploadRead, tmpExists, scratchExists, created, ocrCalls,
                 exc, locals>>

\* except Exception as e: raise HTTPException(status_code=500, ...) from e
\* Every exception raised in the try arrives here, HTTPException included.
ResumeExcept ==
  /\ pc = "resume_except"
  /\ response' = ErrorResponse(500, exc.msg)
  /\ pc' = "done"
  /\ UNCHANGED <<req, uploadRead, tmpExists, scratchExists, created, ocrCalls,
                 exc, locals>>

Next ==
  \/ ReceiveSmalter
  \/ SmalterValidate
  \/ SmalterRead
  \/ SmalterDispatch
  \/ BulkEnter
  \/ BulkBody
  \/ BulkExit
  \/ BulkReturn
  \/ SingleClassify
  \/ SingleTmp
  \/ SingleOcr
  \/ SingleAssemble
  \/ SingleExcept
  \/ ReceiveResume
  \/ ResumeRead
  \/ ResumeDecode
  \/ ResumeOcr
  \/ ResumeAssemble
  \/ ResumeExcept

Spec == Init /\ [][Next]_vars

(* ------------------------------ claims -------------------------------- *)

\* The selectors the claims call identity documents and bulk-eligible.
IdentitySelectors == {"CNI_FRONT", "CNI_BACK"}

BulkEligible == {"CNI_FRONT", "CNI_BACK", "WORK_CONTRACT"}

Done == pc = "done"

InSmalter == req.endpoint = "smalter"

HintAbsentForIdentity ==
  InSmalter /\ req.image_type \in IdentitySelectors /\ req.lang = None

\* A '.zip' upload with a bulk-eligible selector that passed the hint check
\* and carries a well-formed archive.
BulkRequest ==
  /\ InSmalter
  /\ IsZipName(req.filename)
  /\ req.image_type \in BulkEligible
  /\ ~HintAbsentForIdentity
  /\ req.content.kind = "archive"

\* The supported entries of the uploaded archive, in enumeration order.
Supported == SupportedEntries(req.content.entries)

RaisingSupported == {i \in 1..Len(Supported) : Supported[i].ocr = "raise"}

\* C1: a bulk dispatch over an archive with N supported and M unsupported
\* files answers with exactly N fragments, one per supported entry, in
\* enumeration order; unsupported entries produce no fragment at all.
C1_BulkOneFragmentPerSupportedEntry ==
  (Done /\ BulkRequest) =>
     /\ response.kind = "list"
     /\ Len(response.body) = Len(Supported)
     /\ \A i \in 1..Len(Supported) :
          response.body[i].file_metadata["source_file"] = Supported[i].name

\* C2: when exactly one of the N supported entries raises, the dispatch still
\* answers with N fragments, exactly one of them the Failure fragment
\* {source_file: that entry, error: true}, details: [message], the other N-1
\* successes.
C2_BulkIsolatesOneFailure ==
  (Done /\ BulkRequest /\ Cardinality(RaisingSupported) = 1) =>
     /\ response.kind = "list"
     /\ Len(response.body) = Len(Supported)
     /\ \A i \in 1..Len(Supported) :
          IF i \in RaisingSupported
          THEN response.body[i] = FailureFragment(Supported[i].name, "ocr_failed")
          ELSE ~IsFailureFragment(response.body[i])

\* C3: an identity selector without a language hint ends in a 400 before any
\* file I/O: the upload is never read, no temp file or scratch directory is
\* ever created, the OCR collaborator is never called; and only such a
\* request is rejected for the missing hint.
C3_HintCheckedBeforeIO ==
  /\ HintAbsentForIdentity =>
       /\ pc \in {"smalter_validate", "done"}
       /\ ~uploadRead
       /\ created = {}
       /\ ~tmpExists /\ ~scratchExists
       /\ ocrCalls = 0
       /\ Done => (response.status = 400 /\ response.kind = "error")
  /\ response.detail = "lang_required" => HintAbsentForIdentity

C3_Witness ==
  /\ Done
  /\ InSmalter /\ req.image_type = "CNI_BACK" /\ req.lang = None
  /\ response.status = 400
  /\ ~uploadRead

\* C4: once the bulk helper has returned or raised, the scratch directory it
\* created no longer exists; it exists only while the helper is running.
C4_ScratchRemoved ==
  /\ pc \in {"bulk_return", "done"} => ~scratchExists
  /\ scratchExists => pc \in {"bulk_body", "bulk_exit"}

C4_Witness ==
  /\ Done
  /\ "scratch" \in created
  /\ exc # NoExc
  /\ ~scratchExists

\* C5: a ZIP upload whose selector is not bulk-eligible is answered with a
\* 400, and neither a scratch directory nor an OCR call ever happens for it.
C5_IneligibleBulkRejectedEarly ==
  (InSmalter /\ IsZipName(req.filename) /\ req.image_type \notin BulkEligible) =>
     /\ "scratch" \notin created
     /\ ~scratchExists
     /\ ocrCalls = 0
     /\ Done => (response.status = 400 /\ response.kind = "error")

C5_Witness ==
  /\ Done
  /\ InSmalter /\ IsZipName(req.filename) /\ req.image_type = "GENERIC"
  /\ req.content.kind = "archive" /\ Len(req.content.entries) > 0
  /\ uploadRead
  /\ response = ErrorResponse(400, "bulk_not_supported")

\* C6: a resume upload whose file-type tag is none of PDF, PNG, JPG, JPEG is
\* answered with status 415.
C6_UnrecognizedTypeIs415 ==
  (/\ Done
   /\ req.endpoint = "resume"
   /\ FileTypeTag(req.filename) \notin ({PDF} \cup ResumeImageTypes)
   /\ exc.kind = "HTTPException") => response.status = 415

\* C7: in single-document mode a failure of metadata extraction, temp-file
\* I/O or the OCR collaborator ends the request with a 500 and no envelope,
\* whereas a failing archive entry in bulk mode becomes a Failure fragment of
\* a request that itself succeeds.
C7_FailureAsymmetry ==
  /\ (Done /\ InSmalter /\ ~IsZipName(req.filename) /\ exc # NoExc) =>
        (response.status = 500 /\ response.kind = "error" /\ response.body = <<>>)
  /\ (Done /\ BulkRequest /\ RaisingSupported # {}) =>
        /\ response.status = 200
        /\ response.kind = "list"
        /\ \A i \in RaisingSupported :
             /\ i <= Len(response.body)
             /\ IsFailureFragment(response.body[i])

\* C8: file_metadata of every success envelope or fragment of the smalter
\* endpoint has a 'language' key exactly when the selector is an identity
\* document, also when a hint came with another selector.
C8_LanguageKeyIffIdentity ==
  (Done /\ InSmalter /\ response.status = 200) =>
     \A i \in 1..Len(response.body) :
        IsFailureFragment(response.body[i]) \/
          /\ ("language" \in DOMAIN response.body[i].file_metadata)
               <=> (req.image_type \in IdentitySelectors)
          /\ ("language" \in DOMAIN response.body[i].file_metadata)
               => response.body[i].file_metadata["language"] = req.lang

C8_Witness ==
  /\ Done
  /\ InSmalter /\ req.image_type = "WORK_CONTRACT" /\ req.lang # None
  /\ ~IsZipName(req.filename)
  /\ response.kind = "envelope"
  /\ Len(response.body[1].details) = 1
  /\ "language" \notin DOMAIN response.body[1].file_metadata

\* A name without an extension, as the claim counts them: no dot in its last
\* component, a last component that ends in a bare dot, or a last component
\* whose only dots lead it.
HasNoExtension(name) == RemoveDots(SplitextExt(name)) = <<>>

\* C9: the file-type tag is the uppercased extension without its leading
\* dot, is "UNKNOWN" exactly when the name has no extension (names ending in
\* a bare dot and dot-prefixed names included), and is never empty.
C9_FileTypeTag ==
  pc \in {"single_tmp", "resume_decode"} =>
     /\ locals.file_type # <<>>
     /\ (locals.file_type = UNKNOWN) <=> HasNoExtension(req.filename)
     /\ ~HasNoExtension(req.filename) =>
          locals.file_type = StrUpper(Tail(SplitextExt(req.filename)))

\* C10: no single-document request of the smalter endpoint ends with its
\* temp file still present, whichever way it ends.
C10_TmpFileRemovedOnEveryExit ==
  (Done /\ InSmalter /\ ~IsZipName(req.filename)) => ~tmpExists

====
